---------------------------- MODULE Spec2Model ----------------------------
(***************************************************************************)
(* A model of the audio-perturbator library:                               *)
(*   - utils/ops.py     mix and _norm_n_weight (with librosa's normalize), *)
(*   - transform.py     SoundMixer.__call__ and MP3Compressor.__call__.    *)
(*                                                                         *)
(* Samples are real numbers.  A number is kept exactly, as a signed square *)
(* root of a fraction, s * sqrt(n / d): peak normalisation, the L2 norm,   *)
(* sqrt(len) and 10 ** (dB / 20) (dB a multiple of 10) all stay in this    *)
(* form.  d = 0 encodes numpy's non-finite values: n = 1 is +-inf and      *)
(* n = 0 is nan, so that g / 0 = inf and 0 * inf = nan as in numpy.        *)
(***************************************************************************)
EXTENDS Integers, Sequences, FiniteSets, TLC

VARIABLES
    \* SoundMixer: the instance and the invocations in flight
    other, sample_rate, calls,
    \* utils/ops.py: the arguments of one call and what it returned
    sig, sig2, level, ret,
    \* MP3Compressor: one invocation's position, the file system, the outcome
    pc, kbps, tmpfiles, created, raised, encoderRuns, failure, ncalls

mixerVars == <<other, sample_rate, calls>>
opsVars   == <<sig, sig2, level, ret>>
mp3Vars   == <<pc, kbps, tmpfiles, created, raised, encoderRuns, failure, ncalls>>
vars      == <<mixerVars, opsVars, mp3Vars>>

----------------------------------------------------------------------------
(* Bounds of the model *)

\* longest signal given to a SoundMixer (as `other` or as x)
MaxLen == 3
\* longest signal given to mix / _norm_n_weight directly
MaxSigLen == 2
\* largest absolute sample value of those signals
MaxAmp == 2
\* number of MP3Compressor invocations in a run
MaxCalls == 2

----------------------------------------------------------------------------
(* Exact arithmetic on s * sqrt(n / d) *)

RECURSIVE GCD(_, _)
GCD(a, b) == IF b = 0 THEN a ELSE GCD(b, a % b)

Sign(k) == IF k > 0 THEN 1 ELSE IF k < 0 THEN -1 ELSE 0

NaN  == [s |-> 0, n |-> 0, d |-> 0]
Zero == [s |-> 0, n |-> 0, d |-> 1]
One  == [s |-> 1, n |-> 1, d |-> 1]
Inf(s) == [s |-> s, n |-> 1, d |-> 0]

\* the number s * sqrt(n / d) in lowest terms
Real(s, n, d) ==
    IF d = 0
    THEN IF n = 0 \/ s = 0 THEN NaN ELSE Inf(s)
    ELSE IF n = 0 \/ s = 0 THEN Zero
         ELSE LET g == GCD(n, d) IN [s |-> s, n |-> n \div g, d |-> d \div g]

IsNaN(a)    == a.d = 0 /\ a.n = 0
IsInf(a)    == a.d = 0 /\ a.n = 1
IsFinite(a) == a.d # 0
IsZero(a)   == a.d # 0 /\ a.n = 0

\* a Python int sample k as a number
FromInt(k) == Real(Sign(k), k * k, 1)

\* np.abs
Abs(a) == [a EXCEPT !.s = IF a.s = 0 THEN 0 ELSE 1]

\* a * b
Mul(a, b) == Real(a.s * b.s, a.n * b.n, a.d * b.d)

\* 1 / b, numpy semantics: 1 / 0 = inf with a warning, no exception
Recip(b) ==
    IF IsNaN(b) THEN NaN
    ELSE IF IsZero(b) THEN Inf(1)
    ELSE IF IsInf(b) THEN Zero
    ELSE [s |-> b.s, n |-> b.d, d |-> b.n]

\* a / b
Div(a, b) == Mul(a, Recip(b))

\* |a| < |b| for finite a, b
AbsLess(a, b) == a.n * b.d < b.n * a.d

Min(a, b) == IF a < b THEN a ELSE b

RECURSIVE SqrtBetween(_, _, _)
\* the least r of lo..hi with r * r >= k, by bisection
SqrtBetween(k, lo, hi) ==
    IF lo >= hi THEN lo
    ELSE LET mid == (lo + hi) \div 2
         IN  IF mid * mid >= k THEN SqrtBetween(k, lo, mid)
             ELSE SqrtBetween(k, mid + 1, hi)

\* the integer square root of k, rounded up (k below 2^31)
ISqrt(k) == SqrtBetween(k, 0, Min(k, 46340))

IsSquare(k) == ISqrt(k) * ISqrt(k) = k

\* finite non-zero a and b are rational multiples of each other
Commensurable(a, b) ==
    LET g == GCD(a.n * b.d, a.d * b.n)
    IN  IsSquare((a.n * b.d) \div g) /\ IsSquare((a.d * b.n) \div g)

\* a + b; for finite non-zero a and b, |a| = (p / q) * |b| with integers p, q
Add(a, b) ==
    IF IsNaN(a) \/ IsNaN(b) THEN NaN
    ELSE IF IsInf(a) /\ IsInf(b) THEN (IF a.s = b.s THEN a ELSE NaN)
    ELSE IF IsInf(a) THEN a
    ELSE IF IsInf(b) THEN b
    ELSE IF IsZero(a) THEN b
    ELSE IF IsZero(b) THEN a
    ELSE LET g == GCD(a.n * b.d, a.d * b.n)
             p == ISqrt((a.n * b.d) \div g)
             q == ISqrt((a.d * b.n) \div g)
             c == a.s * p + b.s * q
         IN  Real(Sign(c), c * c * b.n, q * q * b.d)

RECURSIVE Pow(_, _)
Pow(b, e) == IF e = 0 THEN 1 ELSE b * Pow(b, e - 1)

\* 10 ** (dB / 20) for dB a multiple of 10: the square root of 10 ** (dB / 10)
Pow10(dB) ==
    IF dB >= 0 THEN Real(1, Pow(10, dB \div 10), 1)
    ELSE Real(1, 1, Pow(10, (0 - dB) \div 10))

\* np.sqrt(k) for a length k
SqrtInt(k) == Real(Sign(k), k, 1)

RECURSIVE SumSq(_, _)
\* the sum of the squares of x[1..i], as a fraction <<n, d>>
SumSq(x, i) ==
    IF i = 0 THEN <<0, 1>>
    ELSE LET r == SumSq(x, i - 1)
             n == r[1] * x[i].d + x[i].n * r[2]
             d == r[2] * x[i].d
             g == GCD(n, d)
         IN  <<n \div g, d \div g>>

\* np.linalg.norm(x) of a finite x: the square root of the sum of squares
Norm2(x) == LET q == SumSq(x, Len(x)) IN Real(1, q[1], q[2])

RECURSIVE MaxAbsTo(_, _)
MaxAbsTo(x, i) ==
    IF i = 1 THEN Abs(x[1])
    ELSE LET m == MaxAbsTo(x, i - 1)
         IN  IF AbsLess(m, x[i]) THEN Abs(x[i]) ELSE m

\* np.max(np.abs(x)) of a finite, non-empty x
MaxAbs(x) == MaxAbsTo(x, Len(x))

----------------------------------------------------------------------------
(* What a call gives back: an array, or an exception *)

Ok(v)    == [tag |-> "ok", val |-> v, err |-> "none"]
Raise(e) == [tag |-> "raise", val |-> <<>>, err |-> e]
NoResult == [tag |-> "none", val |-> <<>>, err |-> "none"]

\* np.asarray of a sequence of ints
Array(x) == [i \in 1..Len(x) |-> FromInt(x[i])]

----------------------------------------------------------------------------
(* utils/ops.py *)

\* librosa.util.normalize(S) with its defaults norm=inf, threshold=tiny(S),
\* fill=None: non-finite input is refused; a peak below the threshold (here:
\* a peak of 0, every other peak of the model being far above tiny) leaves S
\* as it is; otherwise S is divided by its peak.
normalize(S) ==
    IF \E i \in 1..Len(S) : ~IsFinite(S[i]) THEN Raise("ParameterError")
    ELSE LET length == MaxAbs(S)
         IN  IF IsZero(length) THEN Ok(S)
             ELSE Ok([i \in 1..Len(S) |-> Div(S[i], length)])

\* a slip: the norm divided by len(x), not by its square root
RmsMutant(x) == Div(Norm2(x), FromInt(Len(x)))

\* rms = np.linalg.norm(x) / np.sqrt(len(x))
Rms(x) == Div(Norm2(x), SqrtInt(Len(x)))

\* _norm_n_weight(x, dB)
norm_n_weight(x, dB) ==
    LET r == normalize(x)
    IN  IF r.tag = "raise" THEN r
        ELSE LET xn    == r.val
                 rms   == Rms(xn)
                 ratio == Div(Pow10(dB), rms)
             IN  Ok([i \in 1..Len(xn) |-> Mul(xn[i], ratio)])

\* x0 + x1 of numpy arrays: elementwise, a length-1 array broadcasts,
\* any other length mismatch raises ValueError
ArrayAdd(a, b) ==
    IF Len(a) = Len(b) THEN Ok([i \in 1..Len(a) |-> Add(a[i], b[i])])
    ELSE IF Len(b) = 1 THEN Ok([i \in 1..Len(a) |-> Add(a[i], b[1])])
    ELSE IF Len(a) = 1 THEN Ok([i \in 1..Len(b) |-> Add(a[1], b[i])])
    ELSE Raise("ValueError")

\* mix(x0, x1, snr)
mix(x0, x1, snr) ==
    LET a == norm_n_weight(x0, 0)
    IN  IF a.tag = "raise" THEN a
        ELSE LET b == norm_n_weight(x1, 0 - snr)
             IN  IF b.tag = "raise" THEN b
                 ELSE LET s == ArrayAdd(a.val, b.val)
                      IN  IF s.tag = "raise" THEN s ELSE normalize(s.val)

\* every sum x0 + x1 of mix stays of the form s * sqrt(n / d), for the
\* weighted arrays a, b that mix adds
Representable(a, b) ==
    \A i \in 1..Len(a) : \A j \in 1..Len(b) :
        (Len(a) = Len(b) => i = j) =>
            IF ~IsFinite(a[i]) THEN TRUE
            ELSE IF ~IsFinite(b[j]) THEN TRUE
            ELSE IF IsZero(a[i]) THEN TRUE
            ELSE IF IsZero(b[j]) THEN TRUE
            ELSE Commensurable(a[i], b[j])

----------------------------------------------------------------------------
(* Calls of the functions of utils/ops.py on bounded inputs *)

\* the int signals of length 1..maxlen with samples in -amp..amp
IntSignals(maxlen, amp) ==
    UNION {[1..k -> (0 - amp)..amp] : k \in 1..maxlen}

\* the levels in dB tried (multiples of 10, so 10 ** (dB / 20) is exact)
Levels == {-20, -10, 0, 10, 20}

Silent(x) == \A i \in 1..Len(x) : x[i] = 0

OpsIdle == [op |-> "none", res |-> NoResult]

\* the first argument and the level; a second signal is drawn by CallMix
InitOps ==
    /\ sig \in IntSignals(MaxSigLen, MaxAmp)
    /\ sig2 = <<>>
    /\ level \in Levels
    /\ ret = OpsIdle

\* _norm_n_weight(sig, level)
CallNormNWeight ==
    /\ ret.op = "none"
    /\ ret' = [op |-> "norm_n_weight", res |-> norm_n_weight(Array(sig), level)]
    /\ UNCHANGED <<sig, sig2, level, mixerVars, mp3Vars>>

\* mix(sig, x1, level) for a second signal x1, kept in sig2
CallMix ==
    /\ ret.op = "none"
    /\ LET a == norm_n_weight(Array(sig), 0).val
       IN  \E x1 \in IntSignals(MaxSigLen, MaxAmp) :
              /\ Representable(a, norm_n_weight(Array(x1), 0 - level).val)
              /\ sig2' = x1
              /\ ret' = [op |-> "mix", res |-> mix(Array(sig), Array(x1), level)]
    /\ UNCHANGED <<sig, level, mixerVars, mp3Vars>>


----------------------------------------------------------------------------
(* transform.py: SoundMixer *)

\* BaseTransformer.__init__(sample_rate=22050)
DefaultSampleRate == 22050

\* the invocations of one shared SoundMixer that may be in flight together
Calls == {"c1", "c2"}

\* the signals given to a SoundMixer: silence, or samples that are all +-1
\* (so every sum mix forms is exact), of length 1..MaxLen
MixerSignals ==
    {x \in IntSignals(MaxLen, 1) : Silent(x) \/ \A i \in 1..Len(x) : x[i] # 0}

\* the snr values tried (multiples of 20, so the weight 10 ** (-snr / 20) is
\* a fraction)
MixerSnrs == {0, 20}

\* the Python slice s[lo:hi] for 0 <= lo <= hi: indices past the end are cut
Slice(s, lo, hi) == SubSeq(s, Min(lo, Len(s)) + 1, Min(hi, Len(s)))

\* a slip: the upper end included, as random.randint does
RandIntMutant(high) == 0..high

\* np.random.randint(high): an int of [0, high); ValueError when high <= 0
RandInt(high) == 0..(high - 1)

IdleCall ==
    [pc |-> "idle", x |-> <<>>, snr |-> 0, branch |-> "none", padded |-> <<>>,
     st |-> -1, arg1 |-> <<>>, y |-> NoResult]

\* SoundMixer(other, sample_rate): construction
InitMixer ==
    /\ other \in MixerSignals
    /\ sample_rate = DefaultSampleRate
    /\ calls = [c \in Calls |-> IdleCall]

\* mixer(x, snr) is entered
Invoke(c) ==
    /\ calls[c].pc = "idle"
    /\ \E x \in MixerSignals, snr \in MixerSnrs :
          calls' = [calls EXCEPT ![c] = [IdleCall EXCEPT
                       !.pc = "called", !.x = x, !.snr = snr]]
    /\ UNCHANGED <<other, sample_rate, opsVars, mp3Vars>>

\* if len(self.other) == len(x): y = mix(x, self.other, snr)
BranchEqual(c) ==
    /\ calls[c].pc = "called"
    /\ Len(other) = Len(calls[c].x)
    /\ calls' = [calls EXCEPT ![c].pc = "mixing", ![c].branch = "equal",
                              ![c].arg1 = other]
    /\ UNCHANGED <<other, sample_rate, opsVars, mp3Vars>>

\* a slip that stores the padded signal in the instance
BranchShorterMutant(c) ==
    /\ calls[c].pc = "called"
    /\ Len(other) < Len(calls[c].x)
    /\ LET rem == Len(calls[c].x) - Len(other)
       IN  /\ other' = other \o Slice(other, 0, rem)
           /\ calls' = [calls EXCEPT ![c].pc = "mixing",
                                     ![c].branch = "shorter",
                                     ![c].arg1 = other']
    /\ UNCHANGED <<sample_rate, opsVars, mp3Vars>>

\* elif len(self.other) < len(x): the local `other` is self.other followed
\* by self.other[:rem]; mix is then called with self.other
BranchShorter(c) ==
    /\ calls[c].pc = "called"
    /\ Len(other) < Len(calls[c].x)
    /\ LET rem == Len(calls[c].x) - Len(other)
       IN  calls' = [calls EXCEPT ![c].pc = "mixing",
                                  ![c].branch = "shorter",
                                  ![c].padded = other \o Slice(other, 0, rem),
                                  ![c].arg1 = other]
    /\ UNCHANGED <<other, sample_rate, opsVars, mp3Vars>>

\* the draw gave st: y = mix(x, self.other[st:st+len(x)], snr)
CropAt(c, st) ==
    /\ calls[c].pc = "called"
    /\ Len(other) > Len(calls[c].x)
    /\ st \in RandInt(Len(other) - Len(calls[c].x))
    /\ calls' = [calls EXCEPT ![c].pc = "mixing", ![c].branch = "longer",
                              ![c].st = st,
                              ![c].arg1 = Slice(other, st, st + Len(calls[c].x))]
    /\ UNCHANGED <<other, sample_rate, opsVars, mp3Vars>>

\* elif len(self.other) > len(x): st = np.random.randint(...), which raises
\* ValueError when its range is empty
BranchLonger(c) ==
    /\ calls[c].pc = "called"
    /\ Len(other) > Len(calls[c].x)
    /\ IF RandInt(Len(other) - Len(calls[c].x)) = {}
       THEN /\ calls' = [calls EXCEPT ![c].pc = "done", ![c].branch = "longer",
                                      ![c].y = Raise("ValueError")]
            /\ UNCHANGED <<other, sample_rate, opsVars, mp3Vars>>
       ELSE \E st \in RandInt(Len(other) - Len(calls[c].x)) : CropAt(c, st)

\* the call of mix made by the branch runs and gives y (or raises)
MixCall(c) ==
    /\ calls[c].pc = "mixing"
    /\ calls' = [calls EXCEPT ![c].pc = "done",
                    ![c].y = mix(Array(calls[c].x), Array(calls[c].arg1),
                                 calls[c].snr)]
    /\ UNCHANGED <<other, sample_rate, opsVars, mp3Vars>>

\* return y (or the exception reaches the caller)
Return(c) ==
    /\ calls[c].pc = "done"
    /\ calls' = [calls EXCEPT ![c] = IdleCall]
    /\ UNCHANGED <<other, sample_rate, opsVars, mp3Vars>>


----------------------------------------------------------------------------
(* transform.py: MP3Compressor.__call__ *)

\* a typo in the set of bitrates
ValidKbpsMutant ==
    {8, 16, 24, 32, 40, 48, 64, 80, 96, 100, 128, 160, 192, 224, 256, 320}

\* the set of the assert
ValidKbps ==
    {8, 16, 24, 32, 40, 48, 64, 80, 96, 112, 128, 160, 192, 224, 256, 320}

\* the kbps values passed: the valid ones and some others
KbpsInputs == ValidKbps \cup {0, 7, 100, 129, 321}

\* the temp files of the n-th invocation
InFile(n)  == <<n, "wav">>
OutFile(n) == <<n, "mp3">>

\* an exception leaves the function: nothing more of it runs
Propagate(exc, cause) ==
    /\ raised' = exc
    /\ failure' = cause
    /\ pc' = "done"

\* compressor(x, kbps) is entered
StartCall ==
    /\ pc = "idle"
    /\ ncalls < MaxCalls
    /\ ncalls' = ncalls + 1
    /\ kbps' \in KbpsInputs
    /\ pc' = "assert"
    /\ created' = {}
    /\ raised' = "none"
    /\ failure' = "none"
    /\ encoderRuns' = 0
    /\ UNCHANGED <<tmpfiles, mixerVars, opsVars>>

\* assert kbps in {...}
AssertKbps ==
    /\ pc = "assert"
    /\ IF kbps \in ValidKbps
       THEN pc' = "mkstemp_in" /\ UNCHANGED <<raised, failure>>
       ELSE Propagate("AssertionError", "none")
    /\ UNCHANGED <<kbps, tmpfiles, created, encoderRuns, ncalls, mixerVars, opsVars>>

\* fd, infile = tempfile.mkstemp(suffix='.wav'); os.close(fd)
MkstempIn ==
    /\ pc = "mkstemp_in"
    /\ tmpfiles' = tmpfiles \cup {InFile(ncalls)}
    /\ created' = created \cup {InFile(ncalls)}
    /\ pc' = "mkstemp_out"
    /\ UNCHANGED <<kbps, raised, failure, encoderRuns, ncalls, mixerVars, opsVars>>

\* ... mkstemp raises OSError (outside the try)
MkstempInFails ==
    /\ pc = "mkstemp_in"
    /\ Propagate("OSError", "mkstemp_in")
    /\ UNCHANGED <<kbps, tmpfiles, created, encoderRuns, ncalls, mixerVars, opsVars>>

\* fd, outfile = tempfile.mkstemp(suffix='.mp3'); os.close(fd)
MkstempOut ==
    /\ pc = "mkstemp_out"
    /\ tmpfiles' = tmpfiles \cup {OutFile(ncalls)}
    /\ created' = created \cup {OutFile(ncalls)}
    /\ pc' = "write_wav"
    /\ UNCHANGED <<kbps, raised, failure, encoderRuns, ncalls, mixerVars, opsVars>>

\* ... mkstemp raises OSError (outside the try)
MkstempOutFails ==
    /\ pc = "mkstemp_out"
    /\ Propagate("OSError", "mkstemp_out")
    /\ UNCHANGED <<kbps, tmpfiles, created, encoderRuns, ncalls, mixerVars, opsVars>>

\* librosa.output.write_wav(infile, x, self.sample_rate)
WriteWav ==
    /\ pc = "write_wav"
    /\ pc' = "check_call"
    /\ UNCHANGED <<kbps, tmpfiles, created, raised, failure, encoderRuns, ncalls,
                   mixerVars, opsVars>>

\* ... write_wav raises (outside the try)
WriteWavFails ==
    /\ pc = "write_wav"
    /\ Propagate("WriteError", "write_wav")
    /\ UNCHANGED <<kbps, tmpfiles, created, encoderRuns, ncalls, mixerVars, opsVars>>

\* subprocess.check_call(arguments, ...) runs ffmpeg, which exits with 0
CheckCall ==
    /\ pc = "check_call"
    /\ encoderRuns' = encoderRuns + 1
    /\ pc' = "load"
    /\ UNCHANGED <<kbps, tmpfiles, created, raised, failure, ncalls,
                   mixerVars, opsVars>>

\* ... ffmpeg cannot be launched: OSError, caught by `except OSError`
CheckCallCannotLaunch ==
    /\ pc = "check_call"
    /\ raised' = "OSError"
    /\ failure' = "launch"
    /\ pc' = "except"
    /\ UNCHANGED <<kbps, tmpfiles, created, encoderRuns, ncalls, mixerVars, opsVars>>

\* ... ffmpeg exits with a non-zero status: CalledProcessError, which is no
\* OSError, so the handler is skipped and the finally block runs
CheckCallNonZero ==
    /\ pc = "check_call"
    /\ encoderRuns' = encoderRuns + 1
    /\ raised' = "CalledProcessError"
    /\ failure' = "exit_status"
    /\ pc' = "finally"
    /\ UNCHANGED <<kbps, tmpfiles, created, ncalls, mixerVars, opsVars>>

\* y, sr = librosa.load(outfile)
Load ==
    /\ pc = "load"
    /\ pc' = "finally"
    /\ UNCHANGED <<kbps, tmpfiles, created, raised, failure, encoderRuns, ncalls,
                   mixerVars, opsVars>>

\* ... load raises: an OSError goes to the handler, anything else past it
LoadFails ==
    /\ pc = "load"
    /\ failure' = "decode"
    /\ \E exc \in {"OSError", "LoadError"} :
          /\ raised' = exc
          /\ pc' = IF exc = "OSError" THEN "except" ELSE "finally"
    /\ UNCHANGED <<kbps, tmpfiles, created, encoderRuns, ncalls, mixerVars, opsVars>>

\* except OSError as exc: raise RunTimeError(...): the name RunTimeError is
\* defined nowhere, so evaluating it raises NameError
ExceptOSError ==
    /\ pc = "except"
    /\ raised' = "NameError"
    /\ pc' = "finally"
    /\ UNCHANGED <<kbps, tmpfiles, created, failure, encoderRuns, ncalls,
                   mixerVars, opsVars>>

\* finally: os.unlink(infile); os.unlink(outfile); then return y or let the
\* pending exception go on
Finally ==
    /\ pc = "finally"
    /\ tmpfiles' = tmpfiles \ {InFile(ncalls), OutFile(ncalls)}
    /\ pc' = "done"
    /\ UNCHANGED <<kbps, created, raised, failure, encoderRuns, ncalls,
                   mixerVars, opsVars>>

\* the caller has the result or the exception
Done ==
    /\ pc = "done"
    /\ pc' = "idle"
    /\ UNCHANGED <<kbps, tmpfiles, created, raised, failure, encoderRuns, ncalls,
                   mixerVars, opsVars>>

InitMP3 ==
    /\ pc = "idle"
    /\ kbps = 128
    /\ tmpfiles = {}
    /\ created = {}
    /\ raised = "none"
    /\ failure = "none"
    /\ encoderRuns = 0
    /\ ncalls = 0

----------------------------------------------------------------------------
(* The specifications: one per component, the others at rest *)

MixerAtRest == other = <<>> /\ sample_rate = DefaultSampleRate
                  /\ calls = [c \in Calls |-> IdleCall]
OpsAtRest   == sig = <<>> /\ sig2 = <<>> /\ level = 0 /\ ret = OpsIdle

Init == InitMixer /\ OpsAtRest /\ InitMP3

Next ==
    \E c \in Calls :
        \/ Invoke(c)
        \/ BranchEqual(c)
        \/ BranchShorter(c)
        \/ BranchLonger(c)
        \/ MixCall(c)
        \/ Return(c)

\* invocations of one SoundMixer, interleaved
Spec == Init /\ [][Next]_vars

NextOps == CallNormNWeight \/ CallMix

OpsInit == InitOps /\ MixerAtRest /\ InitMP3

\* the functions of utils/ops.py on every bounded input
OpsSpec == OpsInit /\ [][NextOps]_vars

NextMP3 ==
    \/ StartCall
    \/ AssertKbps
    \/ MkstempIn \/ MkstempInFails
    \/ MkstempOut \/ MkstempOutFails
    \/ WriteWav \/ WriteWavFails
    \/ CheckCall \/ CheckCallCannotLaunch \/ CheckCallNonZero
    \/ Load \/ LoadFails
    \/ ExceptOSError
    \/ Finally
    \/ Done

MP3Init == MixerAtRest /\ OpsAtRest /\ InitMP3

\* invocations of one MP3Compressor, one after the other
MP3Spec == MP3Init /\ [][NextMP3]_vars


----------------------------------------------------------------------------
(* Properties *)

\* C1: in every branch of SoundMixer.__call__, the secondary signal handed
\* to mix has exactly len(x) samples.
C1_MixGetsEqualLengths ==
    \A c \in Calls :
        calls[c].pc = "mixing" => Len(calls[c].arg1) = Len(calls[c].x)

\* the cyclic repetition of s to n samples
Cyclic(s, n) == [i \in 1..n |-> s[((i - 1) % Len(s)) + 1]]

\* C2: when len(other) < len(x), the secondary signal handed to mix is the
\* cyclic repetition of other: sample i is other[i mod len(other)].
C2_ShorterIsCyclic ==
    \A c \in Calls :
        (calls[c].pc = "mixing" /\ calls[c].branch = "shorter")
            => calls[c].arg1 = Cyclic(other, Len(calls[c].x))

\* C3: when len(other) > len(x), the secondary signal handed to mix is the
\* window other[st : st + len(x)] of len(x) samples with
\* 0 <= st < len(other) - len(x); each such st can be drawn, no other st
\* can, and the draw does not fail.
C3_CropWindow ==
    \A c \in Calls :
        LET n == Len(other)
            m == Len(calls[c].x)
        IN  /\ (calls[c].pc = "called" /\ n > m) =>
                  \A st \in (0 - 1)..n :
                      (ENABLED CropAt(c, st)) <=> (0 <= st /\ st < n - m)
            /\ calls[c].branch = "longer" =>
                  /\ calls[c].pc \in {"mixing", "done"}
                  /\ 0 <= calls[c].st
                  /\ calls[c].st < n - m
                  /\ calls[c].arg1 = SubSeq(other, calls[c].st + 1, calls[c].st + m)
                  /\ Len(calls[c].arg1) = m
                  /\ calls[c].y.err # "ValueError"

\* C3 happens: a crop at the last start offset that can be drawn, not 0
C3_Witness ==
    \E c \in Calls :
        /\ calls[c].branch = "longer"
        /\ calls[c].pc = "done"
        /\ calls[c].y.tag = "ok"
        /\ calls[c].st = Len(other) - Len(calls[c].x) - 1
        /\ calls[c].st > 0

\* the square root of the mean of the squares of y is 10 ** (dB / 20), in
\* exact arithmetic
MeanSquareIs(y, dB) ==
    LET q == SumSq(y, Len(y))
        t == Pow10(dB)
    IN  /\ \A i \in 1..Len(y) : IsFinite(y[i])
        /\ Real(1, q[1], q[2] * Len(y)) = t

\* C4: for a signal that is not silent, _norm_n_weight(s, dB) returns a
\* signal whose RMS is 10 ** (dB / 20), whatever the scale and the length
\* of s.
C4_RmsIsTarget ==
    (ret.op = "norm_n_weight" /\ ~Silent(sig))
        => /\ ret.res.tag = "ok"
           /\ Len(ret.res.val) = Len(sig)
           /\ MeanSquareIs(ret.res.val, level)

\* C4 happens: a two-sample signal of peak 2 weighted to -10 dB
C4_Witness ==
    /\ ret.op = "norm_n_weight"
    /\ sig = <<1, -2>>
    /\ level = -10
    /\ ret.res.tag = "ok"

\* C5: for equal-length inputs that are not silent, mix returns a signal of
\* peak 1.0 or fails; it returns no signal of another peak.
C5_PeakOneOrFailure ==
    (ret.op = "mix" /\ Len(sig) = Len(sig2) /\ ~Silent(sig) /\ ~Silent(sig2))
        => IF ret.res.tag = "ok" THEN MaxAbs(ret.res.val) = One
           ELSE ret.res.tag = "raise"

\* C6: _norm_n_weight raises on a silent signal and returns nothing, and so
\* mix raises when its primary or its secondary is silent.
C6_SilenceRaises ==
    /\ (ret.op = "norm_n_weight" /\ Silent(sig)) => ret.res.tag = "raise"
    /\ (ret.op = "mix" /\ (Silent(sig) \/ Silent(sig2))) => ret.res.tag = "raise"

\* C7: no step of any invocation, in any branch and however the invocations
\* interleave, changes the mixer's other or sample_rate or the x of an
\* invocation in flight.
C7_ConfigurationReadOnly ==
    [][/\ other' = other
       /\ sample_rate' = sample_rate
       /\ \A c \in Calls :
             calls[c].pc \in {"called", "mixing"} => calls'[c].x = calls[c].x]_vars

\* C7 happens: one invocation finished in the repeat branch while another
\* is in the crop branch
C7_Witness ==
    /\ calls["c1"].pc = "done"
    /\ calls["c1"].branch = "shorter"
    /\ calls["c2"].pc = "mixing"
    /\ calls["c2"].branch = "longer"

\* C8: when an MP3Compressor invocation ends, by return or by exception,
\* none of the temp files it created is left.
C8_TempFilesRemoved ==
    pc = "done" => created \cap tmpfiles = {}

\* the bitrates the encoder accepts
SpecBitrates ==
    {8, 16, 24, 32, 40, 48, 64, 80, 96, 112, 128, 160, 192, 224, 256, 320}

\* C9: with a bitrate outside the set, the invocation ends with the
\* parameter error (Python's AssertionError) before a temp file exists and
\* before the encoder runs; with a bitrate of the set it does not raise it.
C9_BitrateCheckedFirst ==
    (pc \notin {"idle", "assert"}) =>
        IF kbps \in SpecBitrates
        THEN raised # "AssertionError"
        ELSE /\ pc = "done"
             /\ raised = "AssertionError"
             /\ created = {}
             /\ encoderRuns = 0

\* C9 happens: bitrate 100 is refused, with an earlier invocation's files
\* as they were
C9_Witness ==
    /\ pc = "done"
    /\ kbps = 100
    /\ raised = "AssertionError"
    /\ ncalls = 2

\* C10: when the encoder cannot be launched or exits with a non-zero
\* status, the caller gets the error that carries the hint to verify that
\* ffmpeg is installed (the RuntimeError the handler means to raise).
C10_EncoderFailureIsLabelled ==
    (pc = "done" /\ failure \in {"launch", "exit_status"})
        => raised = "RuntimeError"

============================================================================
